---- MODULE Spec2Model ----
(***************************************************************************)
(* voice-cli (main.py): the microphone callback that segments the frame    *)
(* stream into utterances, the per-utterance worker threads that           *)
(* transcribe them, and the command processor that turns each transcript   *)
(* into a tmux session switch, a key event or literal text.                *)
(*                                                                         *)
(* Texts are TLA+ strings, handled character by character with Len,        *)
(* SubSeq and \o, so that lower/strip/rstrip/startswith and the two        *)
(* regular-expression tables are computed the way Python computes them.    *)
(***************************************************************************)
EXTENDS Integers, Sequences, FiniteSets, TLC

(***************************************************************************)
(* Configuration (main.py 43-56).  The frame counts are scaled down so     *)
(* that every frame sequence up to the record limit can be enumerated:     *)
(* the source has FRAME_MS = 30, SILENCE_FRAMES = 30, MIN_SPEECH_FRAMES =  *)
(* 5 and MAX_RECORD_SECONDS = 15 (max_frames = 500).  The scaled values    *)
(* keep the source's order MIN_SPEECH_FRAMES < SILENCE_FRAMES,             *)
(* MIN_SPEECH_FRAMES + SILENCE_FRAMES < max_frames.                        *)
(***************************************************************************)
SAMPLE_RATE == 16000

FRAME_MS == 400

FRAME_SAMPLES == (SAMPLE_RATE * FRAME_MS) \div 1000

ENERGY_THRESHOLD == 500

SILENCE_FRAMES == 3

MIN_SPEECH_FRAMES == 2

MAX_RECORD_SECONDS == 3

SESSIONS == <<"cli1", "cli2", "cli3", "cli4", "cli5">>

DEFAULT_SESSION == "cli1"

\* Bounds of the model: the frames fed by the free-running microphone, the
\* utterances dictated in turn, and the utterances dictated while earlier ones
\* are still being handled.
MaxFrames == 9

MaxUtterances == 3

MaxConcurrent == 2

\* the frames fed by a microphone that is never quiet
MaxTalk == 15

(***************************************************************************)
(* Python str operations, on strings as sequences of characters.           *)
(***************************************************************************)
UpperChars == "ABCDEFGHIJKLMNOPQRSTUVWXYZ"

LowerChars == "abcdefghijklmnopqrstuvwxyz"

Digits == "0123456789"

Char(s, i) == SubSeq(s, i, i)

InStr(c, s) == \E i \in 1..Len(s) : Char(s, i) = c

\* str.isspace for the characters str.strip() removes
IsSpace(c) == c \in {" ", "\t", "\n", "\r", "\f"}

\* \w of the re module
IsWordChar(c) ==
    InStr(c, LowerChars) \/ InStr(c, UpperChars) \/ InStr(c, Digits) \/ c = "_" \/ c = "ø"

LowerChar(c) ==
    IF InStr(c, UpperChars)
    THEN Char(LowerChars, CHOOSE i \in 1..Len(UpperChars) : Char(UpperChars, i) = c)
    ELSE c

RECURSIVE lower(_)
lower(s) == IF s = "" THEN "" ELSE LowerChar(Head(s)) \o lower(Tail(s))

RECURSIVE lstrip(_)
lstrip(s) == IF s # "" /\ IsSpace(Head(s)) THEN lstrip(Tail(s)) ELSE s

RECURSIVE rstrip(_)
rstrip(s) ==
    IF s # "" /\ IsSpace(Char(s, Len(s))) THEN rstrip(SubSeq(s, 1, Len(s) - 1)) ELSE s

strip(s) == rstrip(lstrip(s))

\* str.rstrip("."): removes every trailing character that is in the argument
RECURSIVE rstrip_dot(_)
rstrip_dot(s) ==
    IF s # "" /\ Char(s, Len(s)) = "." THEN rstrip_dot(SubSeq(s, 1, Len(s) - 1)) ELSE s

startswith(s, prefix) == Len(s) >= Len(prefix) /\ SubSeq(s, 1, Len(prefix)) = prefix

\* the last 60 characters, s[-60:]
Last60(s) == IF Len(s) <= 60 THEN s ELSE SubSeq(s, Len(s) - 59, Len(s))

(***************************************************************************)
(* The regular expressions of the two tables.                              *)
(***************************************************************************)
\* s has the literal lit at position i
LitAt(s, i, lit) == i >= 1 /\ i + Len(lit) - 1 <= Len(s) /\ SubSeq(s, i, i + Len(lit) - 1) = lit

\* \b between s[i] and s[i+1] (i = 0: the start, i = Len(s): the end)
WordBoundary(s, i) ==
    LET before == i >= 1 /\ IsWordChar(Char(s, i))
        after == i + 1 <= Len(s) /\ IsWordChar(Char(s, i + 1))
    IN before # after

\* re.search(r"\bcli\s*(a|b|c)\b", s): anywhere in s
SearchCli(alts, s) ==
    \E i \in 1..Len(s) :
        /\ LitAt(s, i, "cli")
        /\ WordBoundary(s, i - 1)
        /\ \E k \in 0..Len(s) :
            /\ \A j \in (i + 3)..(i + 2 + k) : j <= Len(s) /\ IsSpace(Char(s, j))
            /\ \E a \in 1..Len(alts) :
                /\ LitAt(s, i + 3 + k, alts[a])
                /\ WordBoundary(s, i + 2 + k + Len(alts[a]))

\* re.match(r"^(a|b|c)$", s): the whole of s; $ also matches before a final newline
MatchWhole(alts, s) ==
    \E a \in 1..Len(alts) : s = alts[a] \/ s = alts[a] \o "\n"

SESSION_PATTERNS ==
    << [alts |-> <<"one", "1", "en">>, session |-> "cli1"],
       [alts |-> <<"two", "2", "to">>, session |-> "cli2"],
       [alts |-> <<"three", "3", "tre">>, session |-> "cli3"],
       [alts |-> <<"four", "4", "fire">>, session |-> "cli4"],
       [alts |-> <<"five", "5", "fem">>, session |-> "cli5"] >>

SPECIAL_COMMANDS ==
    << [alts |-> <<"send it", "enter", "kjør", "send", "trykk enter">>, key |-> "Enter"],
       [alts |-> <<"clear it", "clear", "avbryt", "stopp">>, key |-> "C-c"],
       [alts |-> <<"tab", "tabb">>, key |-> "Tab"],
       [alts |-> <<"up", "opp", "pil opp">>, key |-> "Up"],
       [alts |-> <<"down", "ned", "pil ned">>, key |-> "Down"],
       [alts |-> <<"escape", "esc">>, key |-> "Escape"],
       [alts |-> <<"undo", "angre">>, key |-> "C-z"],
       [alts |-> <<"save", "lagre">>, key |-> "C-s"],
       [alts |-> <<"delete line", "slett linje">>, key |-> "C-u"] >>

\* process, line 365
normalize(text) == rstrip_dot(strip(lower(text)))

\* process, line 361
is_error(text) == text = "" \/ startswith(text, "[ERROR")

\* the indices of the table entries whose pattern matches, in table order
SessionHits(normalized) ==
    {p \in 1..Len(SESSION_PATTERNS) : SearchCli(SESSION_PATTERNS[p].alts, normalized)}

SpecialHits(normalized) ==
    {p \in 1..Len(SPECIAL_COMMANDS) : MatchWhole(SPECIAL_COMMANDS[p].alts, normalized)}

Min(S) == CHOOSE x \in S : \A y \in S : x <= y

TextTests ==
    /\ normalize("  Send It.. ") = "send it"
    /\ normalize("Enter .") = "enter "
    /\ SessionHits("switch to cli two please") = {2}
    /\ SessionHits("cli2") = {2}
    /\ SessionHits("clitwo") = {2}
    /\ SessionHits("cli tomorrow") = {}
    /\ SessionHits("xcli two") = {}
    /\ SessionHits("cli  1 and cli 3") = {1, 3}
    /\ SessionHits("cli to") = {2}
    /\ SpecialHits("send it") = {1}
    /\ SpecialHits("enter\n") = {1}
    /\ SpecialHits("enter ") = {}
    /\ SpecialHits("please enter") = {}
    /\ SpecialHits("delete line") = {9}
    /\ is_error("[ERROR: x]") /\ is_error("") /\ ~is_error("[error")
    /\ Last60("abc") = "abc"

(***************************************************************************)
(* State.                                                                  *)
(***************************************************************************)
VARIABLES
    running,          \* AudioRecorder.running
    _stream,          \* AudioRecorder._stream: "unset", "active" or "closed"
    _buffer,          \* AudioRecorder._buffer: the frames buffered so far
    _silence_count,   \* AudioRecorder._silence_count
    _speech_count,    \* AudioRecorder._speech_count
    _recording,       \* AudioRecorder._recording
    threads,          \* the on_utterance activations started so far, in start order
    active,           \* TmuxController.active
    display,          \* Display: active_session, status, last_text
    lock,             \* Display.lock: 0 when free, else the thread holding it
    stdout,           \* what _render wrote last
    tmux_calls,       \* history: the tmux commands run so far, in order, and by whom
    mainPc,           \* run_voice_cli: "init", "ready", "running", "exited"
    fed,              \* history: the frames delivered to _callback
    emitted,          \* history: the utterances finalized
    events            \* history: the display updates rendered

recorder == <<running, _stream, _buffer, _silence_count, _speech_count, _recording>>

sink == <<active, tmux_calls>>

screen == <<display, lock, stdout, events>>

vars == <<recorder, threads, sink, screen, mainPc, fed, emitted>>

(***************************************************************************)
(* EnergyVAD.  A frame is represented by its RMS energy, the only thing    *)
(* the program reads from it.                                              *)
(***************************************************************************)
is_speech(frame) == frame > ENERGY_THRESHOLD

\* silence, the loudest frame that is not speech, and the quietest speech frame
Frames == {0, ENERGY_THRESHOLD, ENERGY_THRESHOLD + 1}

(***************************************************************************)
(* AudioRecorder.                                                          *)
(***************************************************************************)
\* int(MAX_RECORD_SECONDS * SAMPLE_RATE / FRAME_SAMPLES)
max_frames == (MAX_RECORD_SECONDS * SAMPLE_RATE) \div FRAME_SAMPLES

\* np.concatenate: the frames in order, FRAME_SAMPLES samples each
concatenate(buffer) == [frames |-> buffer, samples |-> Len(buffer) * FRAME_SAMPLES]

\* threading.Thread(target=self.on_utterance, args=(audio,), daemon=True).start():
\* on_utterance(audio) begins in a thread of its own
Thread(audio) ==
    [pc |-> "start", runs_in |-> "Thread", audio |-> audio, ok |-> TRUE, text |-> "",
     session |-> "", kwargs |-> <<>>, ret |-> ""]

\* the recorder's fields as one value, with the threads started in this callback
Self ==
    [buffer |-> _buffer, silence_count |-> _silence_count, speech_count |-> _speech_count,
     recording |-> _recording, started |-> <<>>]

\* lines 277-284 (first, the faulty variant that calls self.on_utterance(audio)
\* in the callback itself)
_finish_utterance_blocking(self) ==
    [self EXCEPT !.buffer = <<>>,
                 !.recording = FALSE,
                 !.silence_count = 0,
                 !.speech_count = 0,
                 !.started = Append(@, [Thread(concatenate(self.buffer))
                                            EXCEPT !.runs_in = "callback"])]

_finish_utterance(self) ==
    [self EXCEPT !.buffer = <<>>,
                 !.recording = FALSE,
                 !.silence_count = 0,
                 !.speech_count = 0,
                 !.started = Append(@, Thread(concatenate(self.buffer)))]

\* lines 254-259 (first, the faulty variant that drops the provisional frames)
idle_speech_unbuffered(self, frame) ==
    LET s1 == [self EXCEPT !.speech_count = @ + 1]
    IN IF s1.speech_count >= MIN_SPEECH_FRAMES
       THEN [s1 EXCEPT !.recording = TRUE, !.silence_count = 0]
       ELSE s1

idle_speech(self, frame) ==
    LET s1 == [self EXCEPT !.speech_count = @ + 1, !.buffer = Append(@, frame)]
    IN IF s1.speech_count >= MIN_SPEECH_FRAMES
       THEN [s1 EXCEPT !.recording = TRUE, !.silence_count = 0]
       ELSE s1

\* lines 260-262 (first, the faulty variant that keeps counting across a silence)
idle_silence_keeps_count(self) == [self EXCEPT !.buffer = <<>>]

idle_silence(self) == [self EXCEPT !.speech_count = 0, !.buffer = <<>>]

\* lines 264-270 (first, the faulty variant that never restarts the silence count)
recording_frame_keeps_silence(self, frame) ==
    LET s1 == [self EXCEPT !.buffer = Append(@, frame)]
    IN IF ~is_speech(frame)
       THEN LET s2 == [s1 EXCEPT !.silence_count = @ + 1]
            IN IF s2.silence_count >= SILENCE_FRAMES THEN _finish_utterance(s2) ELSE s2
       ELSE s1

recording_frame(self, frame) ==
    LET s1 == [self EXCEPT !.buffer = Append(@, frame)]
    IN IF ~is_speech(frame)
       THEN LET s2 == [s1 EXCEPT !.silence_count = @ + 1]
            IN IF s2.silence_count >= SILENCE_FRAMES THEN _finish_utterance(s2) ELSE s2
       ELSE [s1 EXCEPT !.silence_count = 0]

\* lines 272-275 (first, the faulty variant that lets one frame more through)
max_length_guard_late(self) ==
    IF Len(self.buffer) > max_frames THEN _finish_utterance(self) ELSE self

max_length_guard(self) ==
    IF Len(self.buffer) >= max_frames THEN _finish_utterance(self) ELSE self

\* the state of the recorder after _callback(frame), lines 253-275
callback_body(self, frame) ==
    IF ~self.recording
    THEN IF is_speech(frame) THEN idle_speech(self, frame) ELSE idle_silence(self)
    ELSE max_length_guard(recording_frame(self, frame))

\* the stream's thread runs one callback at a time: it is free unless an
\* on_utterance call is running in it
AudioThreadFree == \A w \in 1..Len(threads) : threads[w].runs_in = "Thread" \/ threads[w].pc = "done"

_callback(frame) ==
    LET s == callback_body(Self, frame)
    IN /\ _stream = "active"
       /\ AudioThreadFree
       /\ _buffer' = s.buffer
       /\ _silence_count' = s.silence_count
       /\ _speech_count' = s.speech_count
       /\ _recording' = s.recording
       /\ threads' = threads \o s.started
       /\ fed' = Append(fed, [rms |-> frame, idle |-> ~_recording /\ _buffer = <<>>])
       /\ emitted' = emitted \o [i \in 1..Len(s.started) |->
                                    [audio |-> s.started[i].audio, at |-> Len(fed) + 1]]
       /\ UNCHANGED <<running, _stream, sink, screen, mainPc>>

(***************************************************************************)
(* run_voice_cli: the main thread.                                         *)
(***************************************************************************)
\* Display._render, of the three fields it prints
rendered(d) == [status |-> d.status, active_session |-> d.active_session,
                last_text |-> Last60(d.last_text)]

\* line 511; no other thread exists yet, the lock is free
main_listening ==
    /\ mainPc = "init"
    /\ lock = 0
    /\ mainPc' = "ready"
    /\ display' = [display EXCEPT !.status = "Listening..."]
    /\ stdout' = rendered(display')
    /\ events' = Append(events, [by |-> 0, shown |-> stdout'])
    /\ UNCHANGED <<recorder, threads, sink, lock, fed, emitted>>

\* recorder.start(), line 532
start ==
    /\ mainPc = "ready"
    /\ mainPc' = "running"
    /\ running' = TRUE
    /\ _stream' = "active"
    /\ UNCHANGED <<_buffer, _silence_count, _speech_count, _recording, threads, sink, screen,
                   fed, emitted>>

\* SIGINT or SIGTERM: recorder.stop() and sys.exit(0); the daemon threads end with
\* the process (first, the faulty variant in which stop hands over what is
\* buffered)
shutdown_flushing ==
    LET s == IF _buffer # <<>> THEN _finish_utterance(Self) ELSE Self
    IN /\ mainPc \in {"ready", "running"}
       /\ mainPc' = "exited"
       /\ running' = FALSE
       /\ _stream' = IF _stream = "unset" THEN "unset" ELSE "closed"
       /\ _buffer' = s.buffer
       /\ _silence_count' = s.silence_count
       /\ _speech_count' = s.speech_count
       /\ _recording' = s.recording
       /\ threads' = threads \o s.started
       /\ emitted' = emitted \o [i \in 1..Len(s.started) |->
                                    [audio |-> s.started[i].audio, at |-> Len(fed)]]
       /\ UNCHANGED <<sink, screen, fed>>

shutdown ==
    /\ mainPc \in {"ready", "running"}
    /\ mainPc' = "exited"
    /\ running' = FALSE
    /\ _stream' = IF _stream = "unset" THEN "unset" ELSE "closed"
    /\ UNCHANGED <<_buffer, _silence_count, _speech_count, _recording, threads, sink, screen,
                   fed, emitted>>

(***************************************************************************)
(* Display.update, called by thread w with kwargs: acquire the lock, set   *)
(* the fields one by one, render, release.  The glyphs the program prints  *)
(* in front of its texts are written here in ASCII ("! Error" for the      *)
(* warning sign, "-> " for the arrow, "key " for the keyboard).            *)
(***************************************************************************)
Workers == 1..Len(threads)

Alive == mainPc # "exited"

\* the activation t, about to call display.update(**kwargs) and then go on at ret
call_update(t, kwargs, ret) == [t EXCEPT !.pc = "update", !.kwargs = kwargs, !.ret = ret]

\* with self.lock: (first, the faulty variant that does not wait for the lock)
update_acquire_unlocked(w) ==
    /\ Alive
    /\ threads[w].pc = "update"
    /\ lock' = w
    /\ threads' = [threads EXCEPT ![w].pc = "setattr"]
    /\ UNCHANGED <<recorder, sink, display, stdout, events, mainPc, fed, emitted>>

update_acquire(w) ==
    /\ Alive
    /\ threads[w].pc = "update"
    /\ lock = 0
    /\ lock' = w
    /\ threads' = [threads EXCEPT ![w].pc = "setattr"]
    /\ UNCHANGED <<recorder, sink, display, stdout, events, mainPc, fed, emitted>>

\* for k, v in kwargs.items(): setattr(self, k, v)
update_setattr(w) ==
    /\ Alive
    /\ threads[w].pc = "setattr"
    /\ LET kv == Head(threads[w].kwargs)
           rest == Tail(threads[w].kwargs)
       IN /\ display' = [display EXCEPT ![kv[1]] = kv[2]]
          /\ threads' = [threads EXCEPT ![w].kwargs = rest,
                                        ![w].pc = IF rest = <<>> THEN "render" ELSE "setattr"]
    /\ UNCHANGED <<recorder, sink, lock, stdout, events, mainPc, fed, emitted>>

\* self._render(), and the lock released on leaving the with block
update_render(w) ==
    /\ Alive
    /\ threads[w].pc = "render"
    /\ stdout' = rendered(display)
    /\ events' = Append(events, [by |-> w, shown |-> stdout'])
    /\ lock' = 0
    /\ threads' = [threads EXCEPT ![w].pc = threads[w].ret]
    /\ UNCHANGED <<recorder, sink, display, mainPc, fed, emitted>>

(***************************************************************************)
(* Transcriber.transcribe: what the Whisper call gave.                     *)
(***************************************************************************)
\* result.text.strip() of a call that succeeded
transcribed(raw) == [ok |-> TRUE, text |-> strip(raw)]

\* f"[ERROR: {e}]" of a call that raised e
failed(e) == [ok |-> FALSE, text |-> "[ERROR: " \o e \o "]"]

\* what the API may answer: texts as Whisper returns them
WhisperTexts ==
    {"Open the file.", "and run it", " Send it.", "Cli 2.", "Switch to cli three please",
     "cli 3 or cli one", "[ERROR] was logged", ""}

\* fewer of them, for the runs where the threads overlap
ConcTexts == {"ls", "cli 2", "cli 3", "enter", ""}

\* texts that end in periods
DottedTexts == {"Enter..", "Enter.", "Esc. ", "ls."}

Exceptions == {"Connection error."}

Outcomes(raws) == {transcribed(raw) : raw \in raws} \cup {failed(e) : e \in Exceptions}

(***************************************************************************)
(* TmuxController: the tmux commands, as run.                              *)
(***************************************************************************)
ReturnCodes == {0, 1}

\* send_keys builds the command for the session active now; rc is tmux's answer.
\* send_special_typed is the faulty variant that types the key's name.
send_keys(keys, literal, rc) ==
    [cmd |-> "send-keys", target |-> active, literal |-> literal, keys |-> keys, rc |-> rc]

send_special_typed(key, rc) == send_keys(key, TRUE, rc)

send_special(key, rc) == send_keys(key, FALSE, rc)

\* session_exists runs tmux has-session; the session exists when it returns 0
has_session(name, rc) ==
    [cmd |-> "has-session", target |-> name, literal |-> FALSE, keys |-> "", rc |-> rc]

(***************************************************************************)
(* run_voice_cli.on_utterance and CommandProcessor.process, thread w.      *)
(***************************************************************************)
\* line 514
on_utterance(w) ==
    /\ Alive
    /\ threads[w].pc = "start"
    /\ threads' = [threads EXCEPT ![w] =
            call_update(@, << <<"status", "Transcribing...">> >>, "transcribe")]
    /\ UNCHANGED <<recorder, sink, screen, mainPc, fed, emitted>>

\* lines 515-516: the blocking call returns one of the outcomes; an empty text
\* skips process
transcribe(w, raws) ==
    /\ Alive
    /\ threads[w].pc = "transcribe"
    /\ \E outcome \in Outcomes(raws) :
        threads' = [threads EXCEPT ![w].ok = outcome.ok,
                                   ![w].text = outcome.text,
                                   ![w].pc = IF outcome.text # "" THEN "process" ELSE "listening"]
    /\ UNCHANGED <<recorder, sink, screen, mainPc, fed, emitted>>

\* lines 361-387: which branch process takes for text
\* (first, the faulty variant that takes every text as it comes)
dispatch_no_error_check(text) ==
    LET normalized == normalize(text)
    IN IF SessionHits(normalized) # {}
       THEN [branch |-> "switch", key |-> "",
             session |-> SESSION_PATTERNS[Min(SessionHits(normalized))].session]
       ELSE IF SpecialHits(normalized) # {}
       THEN [branch |-> "special", session |-> "",
             key |-> SPECIAL_COMMANDS[Min(SpecialHits(normalized))].key]
       ELSE [branch |-> "literal", session |-> "", key |-> ""]

dispatch(text) ==
    LET normalized == normalize(text)
    IN IF is_error(text) THEN [branch |-> "error", session |-> "", key |-> ""]
       ELSE IF SessionHits(normalized) # {}
       THEN [branch |-> "switch", key |-> "",
             session |-> SESSION_PATTERNS[Min(SessionHits(normalized))].session]
       ELSE IF SpecialHits(normalized) # {}
       THEN [branch |-> "special", session |-> "",
             key |-> SPECIAL_COMMANDS[Min(SpecialHits(normalized))].key]
       ELSE [branch |-> "literal", session |-> "", key |-> ""]

\* dispatch, computed once for each text a transcription can give
Texts == {outcome.text : outcome \in Outcomes(WhisperTexts \cup ConcTexts \cup DottedTexts)}

dispatched == [text \in Texts |-> dispatch(text)]

\* lines 361-363
process_error(w) ==
    /\ Alive
    /\ threads[w].pc = "process"
    /\ dispatched[threads[w].text].branch = "error"
    /\ threads' = [threads EXCEPT ![w] =
            call_update(@, << <<"status", "! Error">>, <<"last_text", threads[w].text>> >>,
                        "listening")]
    /\ UNCHANGED <<recorder, sink, screen, mainPc, fed, emitted>>

\* what tmux.switch does once has-session returned rc
\* (first, the faulty variant that switches whatever tmux answered)
switch_unchecked(t, session, rc) == [t EXCEPT !.pc = "switched", !.session = session]

switch(t, session, rc) ==
    IF rc = 0
    THEN [t EXCEPT !.pc = "switched", !.session = session]
    ELSE [t EXCEPT !.pc = "listening"]

\* lines 368-370 and 341: the first matching pattern, tmux has-session; when the
\* session is missing, switch returns False and process returns (line 376)
process_switch(w) ==
    /\ Alive
    /\ threads[w].pc = "process"
    /\ dispatched[threads[w].text].branch = "switch"
    /\ \E rc \in ReturnCodes :
        LET session == dispatched[threads[w].text].session
        IN /\ tmux_calls' = Append(tmux_calls, [by |-> w, call |-> has_session(session, rc)])
           /\ threads' = [threads EXCEPT ![w] = switch(@, session, rc)]
    /\ UNCHANGED <<recorder, active, screen, mainPc, fed, emitted>>

\* lines 342-343 and 371-375: self.active = session, then the display
process_switched(w) ==
    /\ Alive
    /\ threads[w].pc = "switched"
    /\ active' = threads[w].session
    /\ threads' = [threads EXCEPT ![w] =
            call_update(@, << <<"active_session", threads[w].session>>,
                              <<"status", "Switched">>,
                              <<"last_text", "-> " \o threads[w].session>> >>,
                        "listening")]
    /\ UNCHANGED <<recorder, tmux_calls, screen, mainPc, fed, emitted>>

\* lines 379-383
process_special(w) ==
    /\ Alive
    /\ threads[w].pc = "process"
    /\ dispatched[threads[w].text].branch = "special"
    /\ \E rc \in ReturnCodes :
        LET key == dispatched[threads[w].text].key
        IN /\ tmux_calls' = Append(tmux_calls, [by |-> w, call |-> send_special(key, rc)])
           /\ threads' = [threads EXCEPT ![w] =
                call_update(@, << <<"status", "Sent key">>, <<"last_text", "key " \o key>> >>,
                            "listening")]
    /\ UNCHANGED <<recorder, active, screen, mainPc, fed, emitted>>

\* what process types for text (first, the faulty variant that types the
\* normalized text)
typed_normalized(text) == normalize(text)

typed(text) == text

\* lines 386-387
process_literal(w) ==
    /\ Alive
    /\ threads[w].pc = "process"
    /\ dispatched[threads[w].text].branch = "literal"
    /\ \E rc \in ReturnCodes :
        /\ tmux_calls' = Append(tmux_calls,
                               [by |-> w, call |-> send_keys(typed(threads[w].text), TRUE, rc)])
        /\ threads' = [threads EXCEPT ![w] =
                call_update(@, << <<"status", "Typed">>, <<"last_text", threads[w].text>> >>,
                            "listening")]
    /\ UNCHANGED <<recorder, active, screen, mainPc, fed, emitted>>

\* line 518
listening(w) ==
    /\ Alive
    /\ threads[w].pc = "listening"
    /\ threads' = [threads EXCEPT ![w] =
            call_update(@, << <<"status", "Listening...">> >>, "done")]
    /\ UNCHANGED <<recorder, sink, screen, mainPc, fed, emitted>>

\* one step of thread w, apart from the Whisper call
Step(w) ==
    \/ on_utterance(w)
    \/ update_acquire(w)
    \/ update_setattr(w)
    \/ update_render(w)
    \/ process_error(w)
    \/ process_switch(w)
    \/ process_switched(w)
    \/ process_special(w)
    \/ process_literal(w)
    \/ listening(w)

(***************************************************************************)
(* The microphone.                                                         *)
(***************************************************************************)
\* any frame at all
Microphone ==
    /\ Len(fed) < MaxFrames
    /\ \E frame \in Frames : _callback(frame)

\* a room that is never quiet: every frame is at the threshold or above it
Talking ==
    /\ Len(fed) < MaxTalk
    /\ \E frame \in {frame \in Frames : frame >= ENERGY_THRESHOLD} : _callback(frame)

\* a user dictating: MIN_SPEECH_FRAMES frames of speech, SILENCE_FRAMES of
\* silence, again and again
Dictated(n) ==
    IF n % (MIN_SPEECH_FRAMES + SILENCE_FRAMES) < MIN_SPEECH_FRAMES
    THEN ENERGY_THRESHOLD + 1
    ELSE 0

Dictating(limit) ==
    /\ Len(threads) < limit
    /\ _callback(Dictated(Len(fed)))

\* a user who speaks again only when the last command has been carried out
DictatingInTurn ==
    /\ \A w \in Workers : threads[w].pc = "done"
    /\ Dictating(MaxUtterances)

\* a user who speaks on
DictatingOn == Dictating(MaxConcurrent)

Init ==
    /\ running = FALSE
    /\ _stream = "unset"
    /\ _buffer = <<>>
    /\ _silence_count = 0
    /\ _speech_count = 0
    /\ _recording = FALSE
    /\ threads = <<>>
    /\ active = DEFAULT_SESSION
    /\ display = [active_session |-> DEFAULT_SESSION, status |-> "Ready", last_text |-> ""]
    /\ lock = 0
    /\ stdout = [status |-> "", active_session |-> "", last_text |-> ""]
    /\ tmux_calls = <<>>
    /\ mainPc = "init"
    /\ fed = <<>>
    /\ emitted = <<>>
    /\ events = <<>>

\* the whole program
Next ==
    \/ main_listening
    \/ start
    \/ shutdown
    \/ Microphone
    \/ \E w \in Workers : Step(w)
    \/ \E w \in Workers : transcribe(w, WhisperTexts)

Spec == Init /\ [][Next]_vars

\* the recorder alone: every frame sequence, no worker scheduled
SegNext == main_listening \/ start \/ shutdown \/ Microphone

SegSpec == Init /\ [][SegNext]_vars

\* the recorder alone, in a room that is never quiet
TalkNext == main_listening \/ start \/ shutdown \/ Talking

TalkSpec == Init /\ [][TalkNext]_vars

\* the command processor: utterances dictated and carried out in turn, in a run
\* that no signal ends
SeqNext ==
    \/ main_listening
    \/ start
    \/ DictatingInTurn
    \/ \E w \in Workers : Step(w)
    \/ \E w \in Workers : transcribe(w, WhisperTexts)

SeqSpec == Init /\ [][SeqNext]_vars

\* the command processor on texts that end in periods
NormNext ==
    \/ main_listening
    \/ start
    \/ DictatingInTurn
    \/ \E w \in Workers : Step(w)
    \/ \E w \in Workers : transcribe(w, DottedTexts)

NormSpec == Init /\ [][NormNext]_vars

\* the threads together: utterances dictated while earlier ones are still handled,
\* in a run that no signal ends
ConcNext ==
    \/ main_listening
    \/ start
    \/ DictatingOn
    \/ \E w \in Workers : Step(w)
    \/ \E w \in Workers : transcribe(w, ConcTexts)

ConcSpec == Init /\ [][ConcNext]_vars

(***************************************************************************)
(* The recorder's claims, read off the history of frames and utterances.   *)
(***************************************************************************)
\* frames i .. i+n-1 were fed and all are speech (silence)
SpeechRun(i, n) == i + n - 1 <= Len(fed) /\ \A j \in i..(i + n - 1) : is_speech(fed[j].rms)

SilenceRun(i, n) == i + n - 1 <= Len(fed) /\ \A j \in i..(i + n - 1) : ~is_speech(fed[j].rms)

\* the frames i .. i+n-1 as fed
FedFrames(i, n) == [j \in 1..n |-> fed[i + j - 1].rms]

\* the utterances finalized on the frames a .. b
EmittedIn(a, b) == {k \in 1..Len(emitted) : emitted[k].at \in a..b}

HasMinRun == \E i \in 1..Len(fed) : SpeechRun(i, MIN_SPEECH_FRAMES)

\* C1: as long as the frames fed hold no run of MIN_SPEECH_FRAMES consecutive
\* speech frames, no utterance has been finalized and no on_utterance started.
C1_NoMinRunNoUtterance == ~HasMinRun => emitted = <<>> /\ threads = <<>>

\* more speech frames than the minimum were fed, never enough in a row, and the
\* last burst was dropped
C1_Witness ==
    /\ ~HasMinRun
    /\ Cardinality({i \in 1..Len(fed) : is_speech(fed[i].rms)}) > MIN_SPEECH_FRAMES
    /\ ~is_speech(fed[Len(fed)].rms)
    /\ _buffer = <<>>

\* from Idle with an empty buffer: exactly MIN_SPEECH_FRAMES speech frames, then
\* exactly SILENCE_FRAMES silence frames
MinimalUtteranceAt(i) ==
    /\ fed[i].idle
    /\ SpeechRun(i, MIN_SPEECH_FRAMES)
    /\ SilenceRun(i + MIN_SPEECH_FRAMES, SILENCE_FRAMES)

\* C2: MIN_SPEECH_FRAMES speech frames then SILENCE_FRAMES silence frames, fed
\* from Idle with an empty buffer, finalize exactly one utterance, on the last of
\* these frames, made of exactly these MIN_SPEECH_FRAMES + SILENCE_FRAMES frames.
C2_MinimalUtterance ==
    \A i \in 1..Len(fed) :
        MinimalUtteranceAt(i) =>
            LET n == MIN_SPEECH_FRAMES + SILENCE_FRAMES
                E == EmittedIn(i, i + n - 1)
            IN /\ Cardinality(E) = 1
               /\ \A k \in E :
                    /\ emitted[k].at = i + n - 1
                    /\ emitted[k].audio.frames = FedFrames(i, n)
                    /\ emitted[k].audio.samples = n * FRAME_SAMPLES
                    /\ threads[k].audio = emitted[k].audio

\* the pattern was fed after something else, and finalized
C2_Witness == \E i \in 2..Len(fed) : MinimalUtteranceAt(i) /\ Len(emitted) >= 1

\* recording started with frame i and no SILENCE_FRAMES silence frames in a row
\* came before max_frames frames were buffered
ReachesCapAt(i) ==
    /\ fed[i].idle
    /\ i + max_frames - 1 <= Len(fed)
    /\ SpeechRun(i, MIN_SPEECH_FRAMES)
    /\ \A j \in i..(i + max_frames - 1) : ~SilenceRun(j, SILENCE_FRAMES) \/ j + SILENCE_FRAMES > i + max_frames

\* C3: the buffer never holds max_frames frames after a callback; a recording that
\* reaches max_frames frames without SILENCE_FRAMES silence frames in a row is
\* finalized on exactly that frame, with exactly these max_frames frames; no
\* utterance has more than max_frames frames.
C3_HardCap ==
    /\ Len(_buffer) < max_frames
    /\ \A k \in 1..Len(emitted) : Len(emitted[k].audio.frames) <= max_frames
    /\ \A i \in 1..Len(fed) :
        ReachesCapAt(i) =>
            LET E == EmittedIn(i, i + max_frames - 1)
            IN /\ Cardinality(E) = 1
               /\ \A k \in E :
                    /\ emitted[k].at = i + max_frames - 1
                    /\ emitted[k].audio.frames = FedFrames(i, max_frames)

\* an utterance was cut at the cap while its last frame was speech
C3_Witness ==
    \E i \in 1..Len(fed) :
        /\ ReachesCapAt(i)
        /\ is_speech(fed[i + max_frames - 1].rms)
        /\ \E k \in 1..Len(emitted) : emitted[k].at = i + max_frames - 1
(***************************************************************************)
(* The command processor's claims, read off the tmux commands run and the  *)
(* display updates rendered, thread by thread.                             *)
(***************************************************************************)
\* the normalized form and the table entries it matches, once for each text
matches ==
    [text \in Texts |->
        [normalized |-> normalize(text),
         session |-> SessionHits(normalize(text)),
         special |-> SpecialHits(normalize(text))]]

CallsBy(w) == SelectSeq(tmux_calls, LAMBDA c : c.by = w)

EventsBy(w) == SelectSeq(events, LAMBDA e : e.by = w)

\* process was called in thread w and has returned
Returned(w) ==
    /\ threads[w].text # ""
    /\ \/ threads[w].pc \in {"listening", "done"}
       \/ threads[w].pc \in {"update", "setattr", "render"} /\ threads[w].ret = "done"

Latest(w) == w = Len(threads)

IsText(c) == c.call.cmd = "send-keys" /\ c.call.literal

IsKey(c) == c.call.cmd = "send-keys" /\ ~c.call.literal

IsSeparator(c) == IsText(c) /\ c.call.keys = " "

Max(S) == CHOOSE x \in S : \A y \in S : x >= y

\* the session active when the i-th tmux command ran, in a run where the
\* utterances are handled in turn: the target of the last switch that found its
\* session
ActiveAt(i) ==
    LET found == {j \in 1..(i - 1) : tmux_calls[j].call.cmd = "has-session"
                                      /\ tmux_calls[j].call.rc = 0}
    IN IF found = {} THEN DEFAULT_SESSION ELSE tmux_calls[Max(found)].call.target

\* the tmux command before the i-th that is not an injected separator
ActionBefore(i) == Max({j \in 1..(i - 1) : ~IsSeparator(tmux_calls[j])})

SaysSendIt(w) == matches[threads[w].text].normalized = "send it"

\* C5: an utterance that normalizes to "send it" runs exactly one tmux command,
\* the key event Enter to the active session, and a literal text sent next is
\* the transcript itself, with no space injected before it.
C5_SendItSendsEnter ==
    /\ \A w \in Workers : Returned(w) /\ SaysSendIt(w) => Len(CallsBy(w)) = 1
    /\ \A i \in 1..Len(tmux_calls) :
        SaysSendIt(tmux_calls[i].by) =>
            /\ IsKey(tmux_calls[i])
            /\ tmux_calls[i].call.keys = "Enter"
            /\ tmux_calls[i].call.target = ActiveAt(i)
            /\ i < Len(tmux_calls) /\ IsText(tmux_calls[i + 1]) =>
                /\ tmux_calls[i + 1].call.keys = threads[tmux_calls[i + 1].by].text
                /\ Head(tmux_calls[i + 1].call.keys) # " "

\* "send it" between two literal texts, after a switch away from the default
C5_Witness ==
    \E i \in 2..(Len(tmux_calls) - 1) :
        /\ SaysSendIt(tmux_calls[i].by)
        /\ IsText(tmux_calls[i - 1])
        /\ IsText(tmux_calls[i + 1])

\* thread w's text holds a session-switch pattern
SaysSwitch(w) ==
    ~startswith(threads[w].text, "[ERROR") /\ matches[threads[w].text].session # {}

TargetOf(w) == SESSION_PATTERNS[Min(matches[threads[w].text].session)].session

\* the place of thread w's first tmux command in the history
FirstCallBy(w) == Min({i \in 1..Len(tmux_calls) : tmux_calls[i].by = w})

\* C6: a text with a session-switch pattern for S asks tmux for S and nothing
\* else.  When S exists, the active session becomes S and "Switched" is shown
\* with S.  When it does not, no status but those of on_utterance is shown, and
\* the active session and the display's session and last text stay as they were.
C6_SwitchOnlyIfExists ==
    \A w \in Workers :
        Returned(w) /\ SaysSwitch(w) =>
            LET mine == CallsBy(w)
                shown == EventsBy(w)
            IN /\ Len(mine) = 1
               /\ mine[1].call.cmd = "has-session"
               /\ mine[1].call.target = TargetOf(w)
               /\ IF mine[1].call.rc = 0
                  THEN /\ \E e \in 1..Len(shown) :
                            shown[e].shown = [status |-> "Switched",
                                              active_session |-> TargetOf(w),
                                              last_text |-> "-> " \o TargetOf(w)]
                       /\ Latest(w) => active = TargetOf(w) /\ display.active_session = TargetOf(w)
                  ELSE /\ \A e \in 1..Len(shown) :
                            shown[e].shown.status \in {"Transcribing...", "Listening..."}
                       /\ Latest(w) =>
                            /\ active = ActiveAt(FirstCallBy(w))
                            /\ display.active_session = shown[1].shown.active_session
                            /\ Last60(display.last_text) = shown[1].shown.last_text

\* a switch to a missing session, after a switch that succeeded
C6_Witness ==
    \E w \in Workers :
        /\ Returned(w) /\ SaysSwitch(w) /\ Latest(w)
        /\ CallsBy(w)[1].call.rc # 0
        /\ active # DEFAULT_SESSION
        /\ active # TargetOf(w)

\* C8: a text that denotes an error runs no tmux command, shows the error status
\* with the text, and leaves the active session and the displayed session alone.
C8_ErrorStops ==
    \A w \in Workers :
        Returned(w) /\ startswith(threads[w].text, "[ERROR") =>
            LET shown == EventsBy(w)
            IN /\ CallsBy(w) = <<>>
               /\ \E e \in 1..Len(shown) :
                    /\ shown[e].shown.status = "! Error"
                    /\ shown[e].shown.last_text = Last60(threads[w].text)
               /\ \A e \in 1..Len(shown) :
                    shown[e].shown.active_session = shown[1].shown.active_session
               /\ Latest(w) =>
                    /\ active = ActiveAt(Len(tmux_calls) + 1)
                    /\ display.active_session = shown[1].shown.active_session

\* a failed transcription, after a switch away from the default session
C8_Witness ==
    \E w \in Workers :
        /\ Returned(w) /\ ~threads[w].ok /\ Latest(w)
        /\ active # DEFAULT_SESSION

\* C9 (as claimed): a text that was transcribed is never shown as an error, and an
\* error is never typed.
C9_ErrorsDistinguishable ==
    \A w \in Workers :
        Returned(w) =>
            /\ threads[w].ok =>
                \A e \in 1..Len(EventsBy(w)) : EventsBy(w)[e].shown.status # "! Error"
            /\ ~threads[w].ok =>
                \A c \in 1..Len(CallsBy(w)) : ~IsText(CallsBy(w)[c])

\* the one tmux command of thread w, apart from tmux's answer
OnlyCall(w, cmd, target, literal, keys) ==
    /\ Len(CallsBy(w)) = 1
    /\ [CallsBy(w)[1].call EXCEPT !.rc = 0] =
            [cmd |-> cmd, target |-> target, literal |-> literal, keys |-> keys, rc |-> 0]

\* C10: of a text that is not an error, process runs exactly one tmux command:
\* has-session for the first session pattern found in the normalized text; else
\* the key of the first special command the normalized text is; else the text
\* itself, as transcribed, typed literally.
C10_FirstMatchDispatch ==
    \A w \in Workers :
        Returned(w) /\ ~startswith(threads[w].text, "[ERROR") =>
            LET m == matches[threads[w].text]
                at == ActiveAt(FirstCallBy(w))
            IN IF m.session # {}
               THEN OnlyCall(w, "has-session", TargetOf(w), FALSE, "")
               ELSE IF m.special # {}
               THEN OnlyCall(w, "send-keys", at, FALSE, SPECIAL_COMMANDS[Min(m.special)].key)
               ELSE OnlyCall(w, "send-keys", at, TRUE, threads[w].text)

\* a sentence with a session pattern in it, a special command and a literal text
\* that differs from its normalized form, each handled
C10_Witness ==
    \E a, b, c \in Workers :
        /\ Returned(a) /\ Returned(b) /\ Returned(c)
        /\ matches[threads[a].text].session # {}
        /\ matches[threads[a].text].normalized # "cli 2"
        /\ ~SaysSwitch(b) /\ matches[threads[b].text].special # {} /\ IsKey(CallsBy(b)[1])
        /\ IsText(CallsBy(c)[1])
        /\ matches[threads[c].text].normalized # threads[c].text

(***************************************************************************)
(* The threads together.                                                   *)
(***************************************************************************)
\* C7: whatever the threads started for earlier utterances are doing, the stream
\* can deliver its next frame, speech or not, and _callback runs on it; every
\* on_utterance runs in a thread of its own.
C7_IngestionNeverBlocked ==
    /\ _stream = "active" => \A frame \in Frames : ENABLED _callback(frame)
    /\ \A w \in Workers : threads[w].runs_in = "Thread"

\* frames were taken in, and the next utterance is being recorded, while an
\* earlier one is still in the Whisper call
C7_Witness ==
    \E w \in Workers :
        /\ threads[w].pc = "transcribe"
        /\ _recording
        /\ Len(fed) > emitted[w].at + MIN_SPEECH_FRAMES

(***************************************************************************)
(* Failed tmux commands, and the display under concurrent updates.         *)
(***************************************************************************)
\* thread w ran a send-keys command that tmux answered with an error
SendFailed(w) ==
    \E c \in 1..Len(CallsBy(w)) :
        CallsBy(w)[c].call.cmd = "send-keys" /\ CallsBy(w)[c].call.rc # 0

StatusesBy(w) == {EventsBy(w)[e].shown.status : e \in 1..Len(EventsBy(w))}

\* C11 (as claimed): a send-keys command that failed is shown as an error status
\* and never as "Sent key" or "Typed".
C11_FailedSendReported ==
    \A w \in Workers :
        Returned(w) /\ SendFailed(w) =>
            /\ "! Error" \in StatusesBy(w)
            /\ "Sent key" \notin StatusesBy(w)
            /\ "Typed" \notin StatusesBy(w)

\* thread w is inside the with block of Display.update
InUpdate(w) == threads[w].pc \in {"setattr", "render"}

\* the keyword arguments of the display.update calls a thread makes (thread 0 is
\* the main thread)
UpdatesOf(w) ==
    IF w = 0 THEN {[status |-> "Listening..."]}
    ELSE {[status |-> "Transcribing..."], [status |-> "Listening..."],
          [status |-> "! Error", last_text |-> threads[w].text],
          [status |-> "Typed", last_text |-> threads[w].text]}
         \cup {[active_session |-> SESSIONS[i], status |-> "Switched",
                last_text |-> "-> " \o SESSIONS[i]] : i \in 1..Len(SESSIONS)}
         \cup {[status |-> "Sent key", last_text |-> "key " \o SPECIAL_COMMANDS[i].key] :
                  i \in 1..Len(SPECIAL_COMMANDS)}

\* what is on the screen once update u is applied, whole, to what was there
Applied(prev, u) ==
    rendered([f \in DOMAIN prev |-> IF f \in DOMAIN u THEN u[f] ELSE prev[f]])

ShownBefore(i) ==
    IF i = 1
    THEN [status |-> "Ready", active_session |-> DEFAULT_SESSION, last_text |-> ""]
    ELSE events[i - 1].shown

\* C12: at most one thread is inside the with block of Display.update, the one
\* holding the lock, and every render shows what the render before it showed
\* with one whole update of the rendering thread applied to it.
C12_UpdatesSerialized ==
    /\ \A v, w \in Workers : InUpdate(v) /\ InUpdate(w) => v = w
    /\ \A w \in Workers : InUpdate(w) <=> lock = w
    /\ \A i \in 1..Len(events) :
        \E u \in UpdatesOf(events[i].by) : events[i].shown = Applied(ShownBefore(i), u)

\* a thread has set the first field of its update and not yet the next, while
\* another thread waits at the lock with an update of its own
C12_Witness ==
    \E v, w \in Workers :
        /\ v # w
        /\ threads[v].pc = "update"
        /\ lock = w
        /\ threads[w].pc = "setattr"
        /\ Len(threads[w].kwargs) = 1
        /\ threads[w].ret = "listening"

\* thread w has been started and on_utterance has not returned in it
InFlight(w) == threads[w].pc # "done"

\* C13 (as claimed): at most one on_utterance thread is in flight at any time.
C13_AtMostOneInFlight == Cardinality({w \in Workers : InFlight(w)}) <= 1

\* the session that is active once the commands of the utterances before w's
\* have been applied, in utterance order
ActiveBefore(w) ==
    LET found == {j \in 1..Len(tmux_calls) : /\ tmux_calls[j].by < w
                                             /\ tmux_calls[j].call.cmd = "has-session"
                                             /\ tmux_calls[j].call.rc = 0}
        last == CHOOSE j \in found : \A k \in found : tmux_calls[k].by <= tmux_calls[j].by
    IN IF found = {} THEN DEFAULT_SESSION ELSE tmux_calls[last].call.target

\* C18 (as claimed): the tmux commands run in the order of the utterances they
\* come from, and each key or text goes to the session that is active after the
\* commands of the earlier utterances.
C18_SinkInUtteranceOrder ==
    /\ \A i, j \in 1..Len(tmux_calls) : i < j => tmux_calls[i].by <= tmux_calls[j].by
    /\ \A i \in 1..Len(tmux_calls) :
        tmux_calls[i].call.cmd = "send-keys" =>
            tmux_calls[i].call.target = ActiveBefore(tmux_calls[i].by)

\* C19 (as claimed): when no on_utterance thread is in flight, the session the
\* display marks as active is the session the tmux commands go to.
C19_DisplayAgreesWithSink ==
    (\A w \in Workers : ~InFlight(w)) => display.active_session = active

(***************************************************************************)
(* More of the recorder.                                                   *)
(***************************************************************************)
\* C14 (as claimed): the frames of one uninterrupted run of speech frames
\* finalize at most one utterance.
C14_OneUtterancePerBurst ==
    \A a \in 1..Len(fed) : \A b \in a..Len(fed) :
        SpeechRun(a, b - a + 1) => Cardinality(EmittedIn(a, b)) <= 1

\* utterance k ends with exactly SILENCE_FRAMES non-speech frames in a row, or
\* has exactly max_frames frames
ByTrigger(k) ==
    LET f == emitted[k].audio.frames
        n == Len(f)
    IN \/ n = max_frames
       \/ /\ n > SILENCE_FRAMES
          /\ \A j \in (n - SILENCE_FRAMES + 1)..n : ~is_speech(f[j])
          /\ is_speech(f[n - SILENCE_FRAMES])

OnlyByTrigger == \A k \in 1..Len(emitted) : ByTrigger(k)

\* C15: every utterance finalized ends with exactly SILENCE_FRAMES non-speech
\* frames in a row or has exactly max_frames frames; the step that stops the
\* recorder finalizes nothing, whatever is buffered, and once it is stopped no
\* frame is delivered, no utterance finalized and no thread started.
C15_OnlyTwoTriggers ==
    [][/\ OnlyByTrigger'
       /\ mainPc' = "exited" => fed' = fed /\ emitted' = emitted /\ threads' = threads]_vars

\* stopped while recording, after an utterance had been finalized; the buffered
\* frames were not handed over
C15_Witness ==
    /\ mainPc = "exited"
    /\ _recording
    /\ Len(_buffer) > MIN_SPEECH_FRAMES
    /\ Len(emitted) = 1
    /\ Len(threads) = 1

\* the number of non-speech frames at the end of buffer
TrailingSilence(buffer) ==
    Max({n \in 0..Len(buffer) :
            \A j \in (Len(buffer) - n + 1)..Len(buffer) : ~is_speech(buffer[j])})

\* C20: after every callback: when not recording, the buffer holds exactly
\* _speech_count frames, all speech, fewer than MIN_SPEECH_FRAMES, and
\* _silence_count is 0; when recording, the buffer holds at least
\* MIN_SPEECH_FRAMES and fewer than max_frames frames, the first
\* MIN_SPEECH_FRAMES of them speech, and _silence_count is the number of
\* non-speech frames at its end, fewer than SILENCE_FRAMES.
C20_SegmenterInvariant ==
    IF ~_recording
    THEN /\ Len(_buffer) = _speech_count
         /\ \A j \in 1..Len(_buffer) : is_speech(_buffer[j])
         /\ _speech_count < MIN_SPEECH_FRAMES
         /\ _silence_count = 0
    ELSE /\ MIN_SPEECH_FRAMES <= Len(_buffer)
         /\ Len(_buffer) < max_frames
         /\ \A j \in 1..MIN_SPEECH_FRAMES : is_speech(_buffer[j])
         /\ _silence_count < SILENCE_FRAMES
         /\ _silence_count = TrailingSilence(_buffer)

\* recording, one frame short of the limit, with a silence that speech ended
\* and a silence that is still running
C20_Witness ==
    /\ _recording
    /\ Len(_buffer) = max_frames - 1
    /\ _silence_count > 0
    /\ \E j \in 1..(Len(_buffer) - 1) : ~is_speech(_buffer[j]) /\ is_speech(_buffer[j + 1])
    /\ Len(emitted) = 0

(***************************************************************************)
(* Transcriptions that failed or came back empty, and normalization.       *)
(***************************************************************************)
\* C16 (as claimed): a transcription that failed or gave an empty text is shown
\* as an error status by the time on_utterance has returned, and runs no tmux
\* command.
C16_EveryFailureReported ==
    \A w \in Workers :
        ~InFlight(w) /\ (~threads[w].ok \/ threads[w].text = "") =>
            /\ "! Error" \in StatusesBy(w)
            /\ CallsBy(w) = <<>>

\* lowercase, trim the whitespace around, drop one trailing period
SinglePeriodDropped(text) ==
    LET t == strip(lower(text))
    IN IF t # "" /\ Char(t, Len(t)) = "." THEN SubSeq(t, 1, Len(t) - 1) ELSE t

reference ==
    [text \in Texts |->
        [normalized |-> SinglePeriodDropped(text),
         session |-> SessionHits(SinglePeriodDropped(text)),
         special |-> SpecialHits(SinglePeriodDropped(text))]]

\* C17 (as claimed): the normalized form process matches the patterns against is
\* the text lowercased, trimmed and with a single trailing period dropped; a
\* text that is no command in that form is typed, not sent as a key.
C17_SinglePeriodDropped ==
    \A w \in Workers :
        Returned(w) /\ ~startswith(threads[w].text, "[ERROR") =>
            /\ matches[threads[w].text].normalized = reference[threads[w].text].normalized
            /\ reference[threads[w].text].session = {} /\ reference[threads[w].text].special = {}
                => \A c \in 1..Len(CallsBy(w)) : IsText(CallsBy(w)[c])
====
